---------------------------- MODULE Spec2Model ----------------------------
(***************************************************************************)
(* Model of the rebalancing engine of brandvine/portfolio,                 *)
(* analyze_rebalancing in src/portfolio_rebalancer.py (specification       *)
(* Spec, and WideSpec on three-holding inputs), of the JSON store of       *)
(* src/portfolio_data.py (specification DataSpec, further down) and of the *)
(* two analysis endpoints of src/app.py (specification AppSpec, last).     *)
(*                                                                         *)
(* The engine is a sequence of passes over in-memory data.  Each pass (and *)
(* each iteration of the per-ticker loops of the sell and the buy pass) is *)
(* one action; pc is the position in the function body.                    *)
(*                                                                         *)
(* Numbers.  The code computes with Python floats.  The model computes     *)
(* with exact rationals <<n, d>> (d > 0, lowest terms), so a proportional  *)
(* split such as 1/3 is represented, and equalities of the model are the   *)
(* code's equalities up to floating-point rounding.  A division by zero,   *)
(* which raises ZeroDivisionError in Python, yields the value              *)
(* ZeroDivisionError, which every later operation propagates; a step that  *)
(* computes it moves pc to "raised".                                       *)
(***************************************************************************)
EXTENDS Integers, Sequences, FiniteSets, TLC

(***************************************************************************)
(* Bounds of the model.                                                    *)
(***************************************************************************)
MaxHoldings == 2

(***************************************************************************)
(* Program constants.                                                      *)
(***************************************************************************)
MaterialityThreshold == 100
PercentBase == 100

(***************************************************************************)
(* Exact rational arithmetic standing for the float arithmetic.            *)
(***************************************************************************)
RECURSIVE GCD(_, _)
GCD(a, b) ==
  IF b = 0 THEN a ELSE GCD(b, a % b)

AbsInt(n) ==
  IF n < 0 THEN -n ELSE n

ZeroDivisionError ==
  <<0, 0>>

IsErr(a) ==
  a[2] = 0

Norm(n, d) ==
  LET g == GCD(AbsInt(n), d) IN <<n \div g, d \div g>>

Rat(n) ==
  <<n, 1>>

Zero ==
  Rat(0)

RAdd(a, b) ==
  IF IsErr(a) \/ IsErr(b) THEN ZeroDivisionError
  ELSE Norm(a[1] * b[2] + b[1] * a[2], a[2] * b[2])

RNeg(a) ==
  <<-a[1], a[2]>>

RSub(a, b) ==
  RAdd(a, RNeg(b))

RMul(a, b) ==
  IF IsErr(a) \/ IsErr(b) THEN ZeroDivisionError
  ELSE Norm(a[1] * b[1], a[2] * b[2])

RDiv(a, b) ==
  IF IsErr(a) \/ IsErr(b) \/ b[1] = 0 THEN ZeroDivisionError
  ELSE IF b[1] > 0 THEN Norm(a[1] * b[2], a[2] * b[1])
  ELSE Norm(-(a[1] * b[2]), -(a[2] * b[1]))

RAbs(a) ==
  <<AbsInt(a[1]), a[2]>>

RLt(a, b) ==
  a[1] * b[2] < b[1] * a[2]

RGt(a, b) ==
  RLt(b, a)

RLe(a, b) ==
  ~RLt(b, a)

RECURSIVE RSum(_)
RSum(s) ==
  IF s = <<>> THEN Zero ELSE RAdd(Head(s), RSum(Tail(s)))

(***************************************************************************)
(* The inputs the model draws from.                                        *)
(***************************************************************************)
Owners == {"EF", "LF"}
AccountIds == {"SIPP"}
Tickers == {"ABC", "XYZ"}
Values == {0, 200, 400}
TargetWeights == {0, 10, 50}
CashAmounts == {300}
CashTargets == {Zero, <<38, 5>>}

OwnerName(owner) ==
  IF owner = "EF" THEN "Ed Forrester" ELSE "Lucy Forrester"

full_account(h) ==
  <<OwnerName(h.owner), h.account>>

FullAccounts ==
  {<<OwnerName(o), a>> : o \in Owners, a \in AccountIds}

Holding ==
  [owner : Owners, account : AccountIds, ticker : Tickers,
   current_value : {Rat(v) : v \in Values},
   target_weight : {Rat(w) : w \in TargetWeights}]

CashBalance ==
  UNION {[S -> {Rat(c) : c \in CashAmounts}] : S \in SUBSET FullAccounts}

Get(d, k) ==
  IF k \in DOMAIN d THEN d[k] ELSE Zero

RECURSIVE SumValues(_)
SumValues(d) ==
  IF DOMAIN d = {} THEN Zero
  ELSE LET k == CHOOSE x \in DOMAIN d : TRUE
       IN RAdd(d[k], SumValues([x \in DOMAIN d \ {k} |-> d[x]]))

CurrentValues(hs) ==
  [k \in 1..Len(hs) |-> hs[k].current_value]

PortfolioTotal(hs, cash) ==
  RAdd(RSum(CurrentValues(hs)), SumValues(cash))

(***************************************************************************)
(* State of one invocation of analyze_rebalancing.                         *)
(*   holdings, cash_balances, total_value, cash_target_percentage:         *)
(*     the arguments (cash_balances is also results['cash_balances']);     *)
(*   pc: the position in the function body;                                *)
(*   adjustments: results['adjustments'];                                  *)
(*   adjustments_by_ticker: the local dict, as the sequence of its values  *)
(*     in insertion order;  idx: the position of the running loop in it;   *)
(*   account_actions: results['account_actions'];                          *)
(*   available_cash_tracker: the local dict of that name;                  *)
(*   account_cash_needs: results['account_cash_needs'];                    *)
(*   response: the last request served by src/app.py and its JSON body     *)
(*     (specification AppSpec); no request is served while the engine or   *)
(*     the store is looked at on its own.                                  *)
(***************************************************************************)
VARIABLES
  holdings, cash_balances, total_value, cash_target_percentage,
  pc, adjustments, adjustments_by_ticker, idx,
  account_actions, available_cash_tracker, account_cash_needs,
  response

vars ==
  <<holdings, cash_balances, total_value, cash_target_percentage,
    pc, adjustments, adjustments_by_ticker, idx,
    account_actions, available_cash_tracker, account_cash_needs,
    response>>

inputs ==
  <<holdings, cash_balances, total_value, cash_target_percentage>>

fixed_inputs ==
  <<holdings, total_value, cash_target_percentage>>

EmptyMap ==
  [x \in {} |-> Zero]

NoResponse ==
  [handler |-> "none"]

Init ==
  /\ holdings \in UNION {[1..n -> Holding] : n \in 0..MaxHoldings}
  /\ cash_balances \in CashBalance
  /\ total_value = PortfolioTotal(holdings, cash_balances)
  /\ cash_target_percentage \in CashTargets
  /\ pc = "first_pass"
  /\ adjustments = <<>>
  /\ adjustments_by_ticker = <<>>
  /\ idx = 1
  /\ account_actions = EmptyMap
  /\ available_cash_tracker = EmptyMap
  /\ account_cash_needs = EmptyMap
  /\ response = NoResponse


(***************************************************************************)
(* First pass: one row per distinct ticker, in the order in which the      *)
(* tickers first appear in the holdings (dict insertion order).            *)
(***************************************************************************)
RECURSIVE Distinct(_)
Distinct(s) ==
  IF s = <<>> THEN <<>>
  ELSE LET d == Distinct(SubSeq(s, 1, Len(s) - 1))
           x == s[Len(s)]
       IN IF \E k \in 1..Len(d) : d[k] = x THEN d ELSE Append(d, x)

TickersOf(hs) ==
  [k \in 1..Len(hs) |-> hs[k].ticker]

TargetWeightsOf(hs) ==
  [k \in 1..Len(hs) |-> hs[k].target_weight]

AccountsOf(hs) ==
  [k \in 1..Len(hs) |-> full_account(hs[k])]

holdings_by_ticker(hs, t) ==
  SelectSeq(hs, LAMBDA h : h.ticker = t)

RECURSIVE RMax(_)
RMax(s) ==
  IF Len(s) = 1 THEN s[1]
  ELSE LET m == RMax(Tail(s)) IN IF RLt(s[1], m) THEN m ELSE s[1]

FirstTargetWeight(ths) ==
  ths[1].target_weight

MaxTargetWeight(ths) ==
  RMax(TargetWeightsOf(ths))

target_cash_value(tv, ctp) ==
  RMul(tv, RDiv(ctp, Rat(PercentBase)))

target_investable(tv, ctp) ==
  RSub(tv, target_cash_value(tv, ctp))

TargetValueOfInvestable(tv, investable, tw) ==
  RMul(investable, RDiv(tw, Rat(PercentBase)))

TargetValue(tv, investable, tw) ==
  RMul(tv, RDiv(tw, Rat(PercentBase)))

CurrentWeightUnguarded(tcv, tv) ==
  RMul(RDiv(tcv, tv), Rat(PercentBase))

CurrentWeight(tcv, tv) ==
  IF RGt(tv, Zero) THEN RMul(RDiv(tcv, tv), Rat(PercentBase)) ELSE Zero

ActionLabel(adjustment_value) ==
  IF RGt(adjustment_value, Zero) THEN "BUY" ELSE "SELL"

TickerRow(hs, tv, ctp, t) ==
  LET ths == holdings_by_ticker(hs, t)
      tcv == RSum(CurrentValues(ths))
      tw == MaxTargetWeight(ths)
      tval == TargetValue(tv, target_investable(tv, ctp), tw)
      adj == RSub(tval, tcv)
      cw == CurrentWeight(tcv, tv)
  IN [ticker |-> t,
      current_value |-> tcv,
      target_value |-> tval,
      adjustment_value |-> adj,
      current_weight |-> cw,
      target_weight |-> tw,
      adjustment_pct |-> RSub(cw, tw),
      action |-> ActionLabel(adj),
      held_in_accounts |-> AccountsOf(ths),
      holdings |-> ths]

TickerRows(hs, tv, ctp) ==
  LET order == Distinct(TickersOf(hs))
      considered == SelectSeq(order,
                      LAMBDA t : MaxTargetWeight(holdings_by_ticker(hs, t)) # Zero)
  IN [k \in 1..Len(considered) |-> TickerRow(hs, tv, ctp, considered[k])]

IsMeaningfulInclusive(row) ==
  RLe(Rat(MaterialityThreshold), RAbs(row.adjustment_value))

IsMeaningful(row) ==
  RGt(RAbs(row.adjustment_value), Rat(MaterialityThreshold))

SeedTrackerEmpty(cash) ==
  EmptyMap

SeedTracker(cash) ==
  [acc \in DOMAIN cash |-> Get(cash, acc)]

(***************************************************************************)
(* The tracker is a fresh dict, so a write to it leaves the caller's       *)
(* cash_balances (the mapping echoed in the result) as it was.             *)
(***************************************************************************)
CallerCashAliased(cash, tracker) ==
  tracker

CallerCash(cash, tracker) ==
  cash

FirstPass ==
  /\ pc = "first_pass"
  /\ LET rows == TickerRows(holdings, total_value, cash_target_percentage)
     IN IF \E k \in 1..Len(rows) : IsErr(rows[k].current_weight)
        THEN /\ pc' = "raised"
             /\ UNCHANGED <<adjustments, adjustments_by_ticker,
                            available_cash_tracker>>
        ELSE /\ pc' = "sell"
             /\ adjustments' = SelectSeq(rows, IsMeaningful)
             /\ adjustments_by_ticker' = SelectSeq(rows, IsMeaningful)
             /\ available_cash_tracker' = SeedTracker(cash_balances)
  /\ idx' = 1
  /\ UNCHANGED <<response, inputs, account_actions, account_cash_needs>>

(***************************************************************************)
(* Bookkeeping shared by the sell and the buy pass: a list of orders       *)
(* [account, action, ticker, value] appended to account_actions and        *)
(* applied to the available-cash tracker in order.                         *)
(***************************************************************************)
Order(acc, kind, t, v) ==
  [account |-> acc, action |-> kind, ticker |-> t, value |-> v]

AccountAction(o) ==
  [action |-> o.action, ticker |-> o.ticker, value |-> o.value]

RECURSIVE AppendActions(_, _)
AppendActions(actions, orders) ==
  IF orders = <<>> THEN actions
  ELSE LET o == Head(orders)
           old == IF o.account \in DOMAIN actions THEN actions[o.account] ELSE <<>>
           new == [a \in DOMAIN actions \cup {o.account} |->
                     IF a = o.account THEN Append(old, AccountAction(o))
                     ELSE actions[a]]
       IN AppendActions(new, Tail(orders))

SignedCashBuysOnly(o) ==
  IF o.action = "SELL" THEN Zero ELSE RNeg(o.value)

SignedCash(o) ==
  IF o.action = "SELL" THEN o.value ELSE RNeg(o.value)

RECURSIVE ApplyToTracker(_, _)
ApplyToTracker(tracker, orders) ==
  IF orders = <<>> THEN tracker
  ELSE LET o == Head(orders)
           new == [a \in DOMAIN tracker \cup {o.account} |->
                     IF a = o.account
                     THEN RAdd(Get(tracker, a), SignedCash(o))
                     ELSE tracker[a]]
       IN ApplyToTracker(new, Tail(orders))

(***************************************************************************)
(* Second pass, one ticker of adjustments_by_ticker per step.              *)
(***************************************************************************)
holdings_to_exit(ths) ==
  SelectSeq(ths, LAMBDA h : h.target_weight = Zero /\ RGt(h.current_value, Zero))

holdings_to_keep(ths) ==
  SelectSeq(ths, LAMBDA h : RGt(h.target_weight, Zero))

ExitOrders(adjustment) ==
  LET ex == holdings_to_exit(adjustment.holdings)
  IN [k \in 1..Len(ex) |->
        Order(full_account(ex[k]), "SELL", adjustment.ticker, ex[k].current_value)]

remaining_sell_gross(adjustment) ==
  RAbs(adjustment.adjustment_value)

remaining_sell(adjustment) ==
  RSub(RAbs(adjustment.adjustment_value),
       RSum(CurrentValues(holdings_to_exit(adjustment.holdings))))

SellProportionWhole(value, keep_total) ==
  IF RGt(keep_total, Zero) THEN Rat(1) ELSE Zero

SellProportion(value, keep_total) ==
  IF RGt(keep_total, Zero) THEN RDiv(value, keep_total) ELSE Zero

ProportionalSellOrdersUnchecked(adjustment) ==
  LET keep == holdings_to_keep(adjustment.holdings)
      keep_total == RSum(CurrentValues(keep))
  IN IF adjustment.action = "SELL" /\ keep # <<>>
     THEN [k \in 1..Len(keep) |->
             Order(full_account(keep[k]), "SELL", adjustment.ticker,
                   RMul(remaining_sell(adjustment),
                        SellProportion(keep[k].current_value, keep_total)))]
     ELSE <<>>

ProportionalSellOrders(adjustment) ==
  LET keep == holdings_to_keep(adjustment.holdings)
      keep_total == RSum(CurrentValues(keep))
  IN IF adjustment.action = "SELL" /\ keep # <<>>
        /\ RGt(remaining_sell(adjustment), Zero)
     THEN [k \in 1..Len(keep) |->
             Order(full_account(keep[k]), "SELL", adjustment.ticker,
                   RMul(remaining_sell(adjustment),
                        SellProportion(keep[k].current_value, keep_total)))]
     ELSE <<>>

SellOrders(adjustment) ==
  ExitOrders(adjustment) \o ProportionalSellOrders(adjustment)

Raises(orders) ==
  \E k \in 1..Len(orders) : IsErr(orders[k].value)

SellStep ==
  /\ pc = "sell"
  /\ idx <= Len(adjustments_by_ticker)
  /\ LET orders == SellOrders(adjustments_by_ticker[idx])
     IN IF Raises(orders)
        THEN /\ pc' = "raised"
             /\ UNCHANGED <<idx, account_actions, available_cash_tracker>>
        ELSE /\ pc' = "sell"
             /\ idx' = idx + 1
             /\ account_actions' = AppendActions(account_actions, orders)
             /\ available_cash_tracker' = ApplyToTracker(available_cash_tracker, orders)
  /\ cash_balances' = CallerCash(cash_balances, available_cash_tracker')
  /\ UNCHANGED <<response, fixed_inputs, adjustments, adjustments_by_ticker, account_cash_needs>>

SellDone ==
  /\ pc = "sell"
  /\ idx > Len(adjustments_by_ticker)
  /\ pc' = "buy"
  /\ idx' = 1
  /\ UNCHANGED <<response, inputs, adjustments, adjustments_by_ticker, account_actions,
                 available_cash_tracker, account_cash_needs>>

(***************************************************************************)
(* Third pass, one ticker of adjustments_by_ticker per step.               *)
(***************************************************************************)
holdings_to_buy_any_target(ths) ==
  ths

holdings_to_buy(ths) ==
  SelectSeq(ths, LAMBDA h : RGt(h.target_weight, Zero))

total_available_cash(tracker, to_buy) ==
  LET accounts_to_buy == Distinct(AccountsOf(to_buy))
  IN RSum([k \in 1..Len(accounts_to_buy) |-> Get(tracker, accounts_to_buy[k])])

BuyAmountUndivided(adjustment_value, account_cash, total_cash, n) ==
  IF RGt(total_cash, Zero)
  THEN RMul(adjustment_value, RDiv(account_cash, total_cash))
  ELSE adjustment_value

BuyAmount(adjustment_value, account_cash, total_cash, n) ==
  IF RGt(total_cash, Zero)
  THEN RMul(adjustment_value, RDiv(account_cash, total_cash))
  ELSE RDiv(adjustment_value, Rat(n))

BuyOrders(adjustment, tracker) ==
  LET to_buy == holdings_to_buy(adjustment.holdings)
      total_cash == total_available_cash(tracker, to_buy)
  IN IF adjustment.action = "BUY"
     THEN [k \in 1..Len(to_buy) |->
             Order(full_account(to_buy[k]), "BUY", adjustment.ticker,
                   BuyAmount(adjustment.adjustment_value,
                             Get(tracker, full_account(to_buy[k])),
                             total_cash, Len(to_buy)))]
     ELSE <<>>

BuyStep ==
  /\ pc = "buy"
  /\ idx <= Len(adjustments_by_ticker)
  /\ LET orders == BuyOrders(adjustments_by_ticker[idx], available_cash_tracker)
     IN IF Raises(orders)
        THEN /\ pc' = "raised"
             /\ UNCHANGED <<idx, account_actions, available_cash_tracker>>
        ELSE /\ pc' = "buy"
             /\ idx' = idx + 1
             /\ account_actions' = AppendActions(account_actions, orders)
             /\ available_cash_tracker' = ApplyToTracker(available_cash_tracker, orders)
  /\ cash_balances' = CallerCash(cash_balances, available_cash_tracker')
  /\ UNCHANGED <<response, fixed_inputs, adjustments, adjustments_by_ticker, account_cash_needs>>

BuyDone ==
  /\ pc = "buy"
  /\ idx > Len(adjustments_by_ticker)
  /\ pc' = "cash_needs"
  /\ UNCHANGED <<response, inputs, adjustments, adjustments_by_ticker, idx, account_actions,
                 available_cash_tracker, account_cash_needs>>

(***************************************************************************)
(* Cash needs per account, then the sort of the adjustments.               *)
(***************************************************************************)
cash_needed(actions) ==
  RSum([k \in 1..Len(actions) |->
          IF actions[k].action = "BUY" THEN actions[k].value ELSE Zero])

cash_freed(actions) ==
  RSum([k \in 1..Len(actions) |->
          IF actions[k].action = "SELL" THEN RAbs(actions[k].value) ELSE Zero])

net_cash_need(actions, cash, acc) ==
  RSub(RSub(cash_needed(actions[acc]), cash_freed(actions[acc])), Get(cash, acc))

CashNeedsIgnoringCash(actions, cash) ==
  LET needy == {acc \in DOMAIN actions : RGt(net_cash_need(actions, EmptyMap, acc), Zero)}
  IN [acc \in needy |-> net_cash_need(actions, EmptyMap, acc)]

CashNeedsOf(actions, cash) ==
  LET needy == {acc \in DOMAIN actions : RGt(net_cash_need(actions, cash, acc), Zero)}
  IN [acc \in needy |-> net_cash_need(actions, cash, acc)]

CashNeeds ==
  /\ pc = "cash_needs"
  /\ account_cash_needs' = CashNeedsOf(account_actions, cash_balances)
  /\ pc' = "sort"
  /\ UNCHANGED <<response, inputs, adjustments, adjustments_by_ticker, idx, account_actions,
                 available_cash_tracker>>

SortsBeforeAscending(x, y) ==
  RLt(RAbs(x.adjustment_value), RAbs(y.adjustment_value))

SortsBefore(x, y) ==
  RGt(RAbs(x.adjustment_value), RAbs(y.adjustment_value))

RECURSIVE InsertSorted(_, _)
InsertSorted(sorted, x) ==
  IF sorted = <<>> THEN <<x>>
  ELSE IF SortsBefore(x, Head(sorted)) THEN <<x>> \o sorted
  ELSE <<Head(sorted)>> \o InsertSorted(Tail(sorted), x)

RECURSIVE SortAdjustments(_)
SortAdjustments(s) ==
  IF s = <<>> THEN <<>>
  ELSE InsertSorted(SortAdjustments(SubSeq(s, 1, Len(s) - 1)), s[Len(s)])

PopHoldings(adjs) ==
  [k \in 1..Len(adjs) |-> [f \in DOMAIN adjs[k] \ {"holdings"} |-> adjs[k][f]]]

SortStep ==
  /\ pc = "sort"
  /\ adjustments' = PopHoldings(SortAdjustments(adjustments))
  /\ pc' = "done"
  /\ UNCHANGED <<response, inputs, adjustments_by_ticker, idx, account_actions,
                 available_cash_tracker, account_cash_needs>>

(***************************************************************************)
(* The whole of analyze_rebalancing as one function of its arguments: the  *)
(* passes above composed in the order of the function body.                *)
(***************************************************************************)
RECURSIVE RunSellPass(_, _, _)
RunSellPass(abt, actions, tracker) ==
  IF abt = <<>> THEN [actions |-> actions, tracker |-> tracker]
  ELSE LET orders == SellOrders(Head(abt))
       IN RunSellPass(Tail(abt), AppendActions(actions, orders),
                      ApplyToTracker(tracker, orders))

RECURSIVE RunBuyPass(_, _, _)
RunBuyPass(abt, actions, tracker) ==
  IF abt = <<>> THEN [actions |-> actions, tracker |-> tracker]
  ELSE LET orders == BuyOrders(Head(abt), tracker)
       IN RunBuyPass(Tail(abt), AppendActions(actions, orders),
                     ApplyToTracker(tracker, orders))

analyze_rebalancing(hs, cash, tv, ctp) ==
  LET emitted == SelectSeq(TickerRows(hs, tv, ctp), IsMeaningful)
      sold == RunSellPass(emitted, EmptyMap, SeedTracker(cash))
      bought == RunBuyPass(emitted, sold.actions, sold.tracker)
  IN [adjustments |-> PopHoldings(SortAdjustments(emitted)),
      account_actions |-> bought.actions,
      account_cash_needs |-> CashNeedsOf(bought.actions, cash)]

Next ==
  \/ FirstPass
  \/ SellStep
  \/ SellDone
  \/ BuyStep
  \/ BuyDone
  \/ CashNeeds
  \/ SortStep

Spec ==
  Init /\ [][Next]_vars

(***************************************************************************)
(* Vocabulary of the properties, stated on the inputs and the results.     *)
(***************************************************************************)
Returned ==
  pc = "done"

AfterFirstPass ==
  pc \in {"sell", "buy", "cash_needs", "sort", "done"}

HeldTickers ==
  {holdings[k].ticker : k \in 1..Len(holdings)}

PositionsOf(t) ==
  {k \in 1..Len(holdings) : holdings[k].ticker = t}

RECURSIVE SumOfPositions(_)
SumOfPositions(S) ==
  IF S = {} THEN Zero
  ELSE LET k == CHOOSE x \in S : TRUE
       IN RAdd(holdings[k].current_value, SumOfPositions(S \ {k}))

HighestTarget(t) ==
  CHOOSE w \in {holdings[k].target_weight : k \in PositionsOf(t)} :
    \A k \in PositionsOf(t) : RLe(holdings[k].target_weight, w)

TickerDifference(t) ==
  RSub(RDiv(RMul(total_value, HighestTarget(t)), Rat(100)),
       SumOfPositions(PositionsOf(t)))

HasAdjustment(t) ==
  \E k \in 1..Len(adjustments) : adjustments[k].ticker = t

ActionsOf(acc) ==
  IF acc \in DOMAIN account_actions THEN account_actions[acc] ELSE <<>>

RECURSIVE SumOfActions(_, _, _)
SumOfActions(actions, kind, t) ==
  IF actions = <<>> THEN Zero
  ELSE LET a == Head(actions)
           rest == SumOfActions(Tail(actions), kind, t)
       IN IF a.action = kind /\ (t = "any" \/ a.ticker = t)
          THEN RAdd(a.value, rest) ELSE rest

RECURSIVE SumOverAccounts(_, _, _)
SumOverAccounts(S, kind, t) ==
  IF S = {} THEN Zero
  ELSE LET acc == CHOOSE x \in S : TRUE
       IN RAdd(SumOfActions(ActionsOf(acc), kind, t),
               SumOverAccounts(S \ {acc}, kind, t))

NetActionValue(t) ==
  RSub(SumOverAccounts(FullAccounts, "BUY", t),
       SumOverAccounts(FullAccounts, "SELL", t))

NetNeed(acc) ==
  RSub(RSub(SumOfActions(ActionsOf(acc), "BUY", "any"),
            SumOfActions(ActionsOf(acc), "SELL", "any")),
       Get(cash_balances, acc))

(***************************************************************************)
(* C1.  Conservation: when the function has returned, for every ticker     *)
(* with an emitted Adjustment the BUY values of that ticker minus its SELL *)
(* values, summed over all accounts, equal the Adjustment's                *)
(* adjustment_value.                                                       *)
(***************************************************************************)
C1_Conservation ==
  Returned =>
    \A k \in 1..Len(adjustments) :
      NetActionValue(adjustments[k].ticker) = adjustments[k].adjustment_value

(***************************************************************************)
(* C2.  Full exit: when the function has returned, every holding with      *)
(* target weight 0 and current value > 0 has a SELL action in its account  *)
(* for its ticker and for exactly its current value, whether or not the    *)
(* ticker has an Adjustment.                                               *)
(***************************************************************************)
C2_FullExit ==
  Returned =>
    \A k \in 1..Len(holdings) :
      (holdings[k].target_weight = Zero /\ RGt(holdings[k].current_value, Zero)) =>
        \E j \in 1..Len(ActionsOf(full_account(holdings[k]))) :
          LET a == ActionsOf(full_account(holdings[k]))[j]
          IN /\ a.action = "SELL"
             /\ a.ticker = holdings[k].ticker
             /\ a.value = holdings[k].current_value

(***************************************************************************)
(* C3.  Materiality: once the first pass has run, a ticker has an          *)
(* Adjustment if and only if its highest target weight is not 0 and        *)
(* |total_value * highest target / 100 - sum of its current values| > 100. *)
(***************************************************************************)
C3_Materiality ==
  AfterFirstPass =>
    \A t \in HeldTickers :
      HasAdjustment(t) <=>
        (HighestTarget(t) # Zero /\ RGt(RAbs(TickerDifference(t)), Rat(100)))

C3_Witness ==
  /\ Returned
  /\ \E t \in HeldTickers :
       /\ HighestTarget(t) # Zero
       /\ RAbs(TickerDifference(t)) = Rat(100)
       /\ ~HasAdjustment(t)
  /\ \E t \in HeldTickers : HasAdjustment(t)

(***************************************************************************)
(* C4.  Funding needs: when the function has returned, an account has an   *)
(* entry in account_cash_needs exactly when it has at least one action and *)
(* its BUY total - SELL total - input cash balance (0 if absent) is > 0;   *)
(* the entry is that number, so no entry is <= 0.                          *)
(***************************************************************************)
C4_FundingNeeds ==
  Returned =>
    /\ DOMAIN account_cash_needs \subseteq FullAccounts
    /\ \A acc \in FullAccounts :
         /\ acc \in DOMAIN account_cash_needs <=>
              (Len(ActionsOf(acc)) >= 1 /\ RGt(NetNeed(acc), Zero))
         /\ acc \in DOMAIN account_cash_needs =>
              /\ account_cash_needs[acc] = NetNeed(acc)
              /\ RGt(account_cash_needs[acc], Zero)

C4_Witness ==
  /\ Returned
  /\ \E acc \in DOMAIN account_cash_needs : RGt(Get(cash_balances, acc), Zero)
  /\ \E acc \in DOMAIN account_actions :
       /\ acc \notin DOMAIN account_cash_needs
       /\ SumOfActions(ActionsOf(acc), "BUY", "any") # Zero

(***************************************************************************)
(* C6.  No input mutation: no step of the function changes the caller's    *)
(* cash-balance mapping or any Holding record.                             *)
(***************************************************************************)
C6_NoInputMutation ==
  [][cash_balances' = cash_balances /\ holdings' = holdings]_vars

C6_Witness ==
  /\ Returned
  /\ cash_balances # EmptyMap
  /\ \E acc \in DOMAIN cash_balances :
       /\ Len(ActionsOf(acc)) >= 1
       /\ available_cash_tracker[acc] # cash_balances[acc]

(***************************************************************************)
(* C7.  No failure: with non-negative inputs no step raises; the function  *)
(* is always at a position of its body from which the next step is defined *)
(* (the loops of the sell and the buy pass stay within the emitted         *)
(* adjustments) or has returned; and with empty holdings the adjustments,  *)
(* account_actions and account_cash_needs it returns are all empty.        *)
(***************************************************************************)
C7_NoFailure ==
  /\ pc # "raised"
  /\ pc \in {"first_pass", "sell", "buy", "cash_needs", "sort", "done"}
  /\ pc \in {"sell", "buy"} => idx \in 1..(Len(adjustments_by_ticker) + 1)
  /\ (Returned /\ holdings = <<>>) =>
       /\ adjustments = <<>>
       /\ account_actions = EmptyMap
       /\ account_cash_needs = EmptyMap

C7_Witness ==
  /\ Returned
  /\ total_value = Zero
  /\ \E k \in 1..Len(holdings) : RGt(holdings[k].target_weight, Zero)

(***************************************************************************)
(* C8.  Max-target rule: every emitted Adjustment carries the highest      *)
(* target weight of its ticker's holdings, target_value = total_value *    *)
(* target_weight / 100, current_value = the sum of the ticker's current    *)
(* values, and adjustment_value = target_value - current_value.            *)
(***************************************************************************)
C8_MaxTargetRule ==
  AfterFirstPass =>
    \A k \in 1..Len(adjustments) :
      LET a == adjustments[k]
      IN /\ a.target_weight = HighestTarget(a.ticker)
         /\ a.target_value = RDiv(RMul(total_value, a.target_weight), Rat(100))
         /\ a.current_value = SumOfPositions(PositionsOf(a.ticker))
         /\ a.adjustment_value = RSub(a.target_value, a.current_value)

C8_Witness ==
  /\ Returned
  /\ \E k \in 1..Len(adjustments) :
       LET first == CHOOSE i \in PositionsOf(adjustments[k].ticker) :
                      \A j \in PositionsOf(adjustments[k].ticker) : i <= j
       IN holdings[first].target_weight # adjustments[k].target_weight

(***************************************************************************)
(* C9.  Ordering of output: the returned adjustments are sorted by         *)
(* descending |adjustment_value|.                                          *)
(***************************************************************************)
C9_SortedDescending ==
  Returned =>
    \A k \in 1..(Len(adjustments) - 1) :
      RLe(RAbs(adjustments[k + 1].adjustment_value),
          RAbs(adjustments[k].adjustment_value))

C9_Witness ==
  /\ Returned
  /\ Len(adjustments) = 2
  /\ adjustments[1].ticker = adjustments_by_ticker[2].ticker
  /\ RGt(RAbs(adjustments[1].adjustment_value), RAbs(adjustments[2].adjustment_value))

(***************************************************************************)
(* C10.  Cash target is informational: the returned adjustments,           *)
(* account_actions and account_cash_needs are those the function returns   *)
(* on the same holdings, cash balances and total value for every other     *)
(* cash target percentage.                                                 *)
(***************************************************************************)
C10_CashTargetInformational ==
  Returned =>
    \A ctp \in CashTargets :
      analyze_rebalancing(holdings, cash_balances, total_value, ctp)
        = [adjustments |-> adjustments,
           account_actions |-> account_actions,
           account_cash_needs |-> account_cash_needs]

C10_Witness ==
  /\ Returned
  /\ cash_target_percentage # Zero
  /\ target_cash_value(total_value, cash_target_percentage) # Zero
  /\ adjustments # <<>>
  /\ account_actions # EmptyMap

(***************************************************************************)
(* C11.  Action uniqueness: when the function has returned, no account has *)
(* two actions with the same ticker and the same action kind, and no       *)
(* ticker has more than one Adjustment row.                                *)
(***************************************************************************)
C11_ActionUniqueness ==
  Returned =>
    /\ \A acc \in FullAccounts :
         \A j, k \in 1..Len(ActionsOf(acc)) :
           (j # k) =>
             ~(/\ ActionsOf(acc)[j].ticker = ActionsOf(acc)[k].ticker
               /\ ActionsOf(acc)[j].action = ActionsOf(acc)[k].action)
    /\ \A t \in HeldTickers :
         Cardinality({k \in 1..Len(adjustments) : adjustments[k].ticker = t}) <= 1

(***************************************************************************)
(* C12.  Sells before buys: once a BUY has been allocated no step adds a   *)
(* SELL to any account, so every SELL of the result was made before the    *)
(* first BUY; and after the first pass the available-cash tracker of every *)
(* account is its input cash plus all its SELLs minus all its BUYs so far, *)
(* so the cash a BUY is split by includes the cash freed by the SELLs of   *)
(* every ticker, those later in the holdings order too.                    *)
(***************************************************************************)
SellActions(actions) ==
  [acc \in FullAccounts |->
     SelectSeq(IF acc \in DOMAIN actions THEN actions[acc] ELSE <<>>,
               LAMBDA a : a.action = "SELL")]

AnyBuy(actions) ==
  \E acc \in DOMAIN actions :
    \E k \in 1..Len(actions[acc]) : actions[acc][k].action = "BUY"

TrackerBalanced ==
  \A acc \in FullAccounts :
    Get(available_cash_tracker, acc)
      = RSub(RAdd(Get(cash_balances, acc), SumOfActions(ActionsOf(acc), "SELL", "any")),
             SumOfActions(ActionsOf(acc), "BUY", "any"))

C12_SellsBeforeBuys ==
  /\ [](AfterFirstPass => TrackerBalanced)
  /\ [][AnyBuy(account_actions') =>
          SellActions(account_actions') = SellActions(account_actions)]_vars

C12_Witness ==
  /\ pc = "buy"
  /\ idx = 2
  /\ Len(adjustments_by_ticker) = 2
  /\ adjustments_by_ticker[1].action = "BUY"
  /\ adjustments_by_ticker[2].action = "SELL"
  /\ \E acc \in FullAccounts :
       /\ Get(cash_balances, acc) = Zero
       /\ RGt(SumOfActions(ActionsOf(acc), "SELL", adjustments_by_ticker[2].ticker), Zero)
       /\ RGt(SumOfActions(ActionsOf(acc), "BUY", adjustments_by_ticker[1].ticker), Zero)

(***************************************************************************)
(* Vocabulary of the buy pass: the accounts that hold ticker t with a      *)
(* non-zero target, their combined available cash, and the BUY total of a  *)
(* ticker in one account of an account_actions mapping.                    *)
(***************************************************************************)
EligibleAccounts(t) ==
  {full_account(holdings[k]) :
     k \in {j \in PositionsOf(t) : RGt(holdings[j].target_weight, Zero)}}

RECURSIVE CombinedCash(_, _)
CombinedCash(tracker, S) ==
  IF S = {} THEN Zero
  ELSE LET acc == CHOOSE x \in S : TRUE
       IN RAdd(Get(tracker, acc), CombinedCash(tracker, S \ {acc}))

BuyValueIn(actions, acc, t) ==
  SumOfActions(IF acc \in DOMAIN actions THEN actions[acc] ELSE <<>>, "BUY", t)

RECURSIVE BuyValueOver(_, _, _)
BuyValueOver(actions, S, t) ==
  IF S = {} THEN Zero
  ELSE LET acc == CHOOSE x \in S : TRUE
       IN RAdd(BuyValueIn(actions, acc, t), BuyValueOver(actions, S \ {acc}, t))

BuyingTicker ==
  /\ pc = "buy"
  /\ idx <= Len(adjustments_by_ticker)
  /\ adjustments_by_ticker[idx].action = "BUY"

(***************************************************************************)
(* C13.  Proportional buy: in the step of the buy pass that handles a BUY  *)
(* ticker whose eligible accounts have combined available cash > 0, every  *)
(* eligible account's BUY value of the ticker is adjustment_value * (its   *)
(* available cash / the combined available cash), its tracker falls by     *)
(* that BUY value, and the BUY values of the ticker sum to                 *)
(* adjustment_value.                                                       *)
(***************************************************************************)
C13_ProportionalBuy ==
  [][LET a == adjustments_by_ticker[idx]
         eligible == EligibleAccounts(a.ticker)
         combined == CombinedCash(available_cash_tracker, eligible)
     IN (BuyingTicker /\ RGt(combined, Zero)) =>
          /\ \A acc \in eligible :
               /\ BuyValueIn(account_actions', acc, a.ticker)
                    = RMul(a.adjustment_value,
                           RDiv(Get(available_cash_tracker, acc), combined))
               /\ Get(available_cash_tracker', acc)
                    = RSub(Get(available_cash_tracker, acc),
                           BuyValueIn(account_actions', acc, a.ticker))
          /\ BuyValueOver(account_actions', FullAccounts, a.ticker)
               = a.adjustment_value]_vars

(***************************************************************************)
(* Vocabulary of the even split: the eligible holdings of ticker t in one  *)
(* account, the values of the BUYs of t in one account, and the case of    *)
(* the second half of C14: a BUY ticker whose single eligible account has  *)
(* no input cash and no SELL (and, when own_only, no action of another     *)
(* ticker) has a funding need equal to the adjustment_value.               *)
(***************************************************************************)
EligiblePositions(t) ==
  {k \in PositionsOf(t) : RGt(holdings[k].target_weight, Zero)}

EligiblePositionsIn(t, acc) ==
  {k \in EligiblePositions(t) : full_account(holdings[k]) = acc}

BuyValuesIn(actions, acc, t) ==
  LET buys == SelectSeq(IF acc \in DOMAIN actions THEN actions[acc] ELSE <<>>,
                        LAMBDA x : x.action = "BUY" /\ x.ticker = t)
  IN [k \in 1..Len(buys) |-> buys[k].value]

EvenSplitStep ==
  LET a == adjustments_by_ticker[idx]
      eligible == EligibleAccounts(a.ticker)
      combined == CombinedCash(available_cash_tracker, eligible)
      share == RDiv(a.adjustment_value, Rat(Cardinality(EligiblePositions(a.ticker))))
  IN (BuyingTicker /\ RLe(combined, Zero)) =>
       \A acc \in eligible :
         LET m == Cardinality(EligiblePositionsIn(a.ticker, acc))
         IN /\ BuyValuesIn(account_actions', acc, a.ticker) = [k \in 1..m |-> share]
            /\ Get(available_cash_tracker', acc)
                 = RSub(Get(available_cash_tracker, acc), RMul(Rat(m), share))

SoleAccountNeed(own_only) ==
  \A k \in 1..Len(adjustments) : \A acc \in FullAccounts :
    LET a == adjustments[k]
    IN (/\ a.action = "BUY"
        /\ EligibleAccounts(a.ticker) = {acc}
        /\ Get(cash_balances, acc) = Zero
        /\ \A j \in 1..Len(ActionsOf(acc)) :
             /\ ActionsOf(acc)[j].action # "SELL"
             /\ own_only => ActionsOf(acc)[j].ticker = a.ticker)
       => /\ acc \in DOMAIN account_cash_needs
          /\ account_cash_needs[acc] = a.adjustment_value

(***************************************************************************)
(* C14 as stated.  Even-split fallback: in the step of the buy pass that   *)
(* handles a BUY ticker whose eligible accounts have combined available    *)
(* cash <= 0, each of the n eligible holdings gets a BUY of                *)
(* adjustment_value / n and its account's tracker falls by that amount;    *)
(* and when the function has returned, a BUY ticker's single eligible      *)
(* account that has no input cash and no SELL has a funding need equal to  *)
(* the adjustment_value.                                                   *)
(***************************************************************************)
C14_EvenSplitAsStated ==
  /\ [][EvenSplitStep]_vars
  /\ [](Returned => SoleAccountNeed(FALSE))

(***************************************************************************)
(* C14, amended.  As above, with the funding need equal to the             *)
(* adjustment_value when, besides, the account has no action of another    *)
(* ticker.                                                                 *)
(***************************************************************************)
C14_EvenSplit ==
  /\ [][EvenSplitStep]_vars
  /\ [](Returned => SoleAccountNeed(TRUE))

C14_Witness ==
  /\ Returned
  /\ \E k \in 1..Len(adjustments) : \E acc \in FullAccounts :
       LET a == adjustments[k]
       IN /\ a.action = "BUY"
          /\ EligibleAccounts(a.ticker) = {acc}
          /\ Get(cash_balances, acc) = Zero
          /\ Len(ActionsOf(acc)) = 2
          /\ BuyValuesIn(account_actions, acc, a.ticker)
               = <<RDiv(a.adjustment_value, Rat(2)), RDiv(a.adjustment_value, Rat(2))>>
          /\ acc \in DOMAIN account_cash_needs
          /\ account_cash_needs[acc] = a.adjustment_value

(***************************************************************************)
(* Vocabulary of the sell pass, stated on the input holdings: the fully    *)
(* exited and the kept positions of ticker t, the positions of a set in    *)
(* holdings order, and the SELL values of a ticker in one account.         *)
(***************************************************************************)
ExitPositions(t) ==
  {k \in PositionsOf(t) :
     holdings[k].target_weight = Zero /\ RGt(holdings[k].current_value, Zero)}

KeepPositions(t) ==
  {k \in PositionsOf(t) : RGt(holdings[k].target_weight, Zero)}

RECURSIVE InHoldingsOrder(_)
InHoldingsOrder(S) ==
  IF S = {} THEN <<>>
  ELSE LET k == CHOOSE x \in S : \A y \in S : x <= y
       IN <<k>> \o InHoldingsOrder(S \ {k})

PositionsIn(S, acc) ==
  InHoldingsOrder({k \in S : full_account(holdings[k]) = acc})

RemainingToSell(a) ==
  RSub(RAbs(a.adjustment_value), SumOfPositions(ExitPositions(a.ticker)))

SellValuesIn(actions, acc, t) ==
  LET sells == SelectSeq(IF acc \in DOMAIN actions THEN actions[acc] ELSE <<>>,
                         LAMBDA x : x.action = "SELL" /\ x.ticker = t)
  IN [k \in 1..Len(sells) |-> sells[k].value]

RECURSIVE SellValueOver(_, _, _)
SellValueOver(actions, S, t) ==
  IF S = {} THEN Zero
  ELSE LET acc == CHOOSE x \in S : TRUE
       IN RAdd(RSum(SellValuesIn(actions, acc, t)), SellValueOver(actions, S \ {acc}, t))

SellingTicker ==
  /\ pc = "sell"
  /\ idx <= Len(adjustments_by_ticker)
  /\ adjustments_by_ticker[idx].action = "SELL"

(***************************************************************************)
(* C15.  Proportional sell: in the step of the sell pass that handles a    *)
(* SELL ticker with remaining_sell = |adjustment_value| - (sum of the      *)
(* values of its fully exited holdings) > 0, every account gets, after the *)
(* full exits of its 0%-target holdings, one SELL per non-zero-target      *)
(* holding h of remaining_sell * (h.current_value / sum of the values of   *)
(* the non-zero-target holdings); these SELLs sum to remaining_sell; and   *)
(* the tracker of every account rises by the SELLs it got.                 *)
(***************************************************************************)
C15_ProportionalSell ==
  [][LET a == adjustments_by_ticker[idx]
         t == a.ticker
         remaining == RemainingToSell(a)
         keep_total == SumOfPositions(KeepPositions(t))
     IN (SellingTicker /\ RGt(remaining, Zero)) =>
          /\ \A acc \in FullAccounts :
               LET exits == PositionsIn(ExitPositions(t), acc)
                   kept == PositionsIn(KeepPositions(t), acc)
               IN /\ SellValuesIn(account_actions', acc, t)
                       = [k \in 1..Len(exits) |-> holdings[exits[k]].current_value]
                         \o [k \in 1..Len(kept) |->
                               RMul(remaining,
                                    RDiv(holdings[kept[k]].current_value, keep_total))]
                  /\ Get(available_cash_tracker', acc)
                       = RAdd(Get(available_cash_tracker, acc),
                              RSum(SellValuesIn(account_actions', acc, t)))
          /\ RSub(SellValueOver(account_actions', FullAccounts, t),
                  SumOfPositions(ExitPositions(t)))
               = remaining]_vars

C15_Witness ==
  /\ pc = "sell"
  /\ idx = 2
  /\ LET a == adjustments_by_ticker[1]
     IN /\ a.action = "SELL"
        /\ RGt(RemainingToSell(a), Zero)
        /\ \E j, k \in KeepPositions(a.ticker) :
             /\ full_account(holdings[j]) # full_account(holdings[k])
             /\ RGt(holdings[k].current_value, holdings[j].current_value)
             /\ RGt(holdings[j].current_value, Zero)
             /\ SellValuesIn(account_actions, full_account(holdings[j]), a.ticker)
                  = <<RMul(RemainingToSell(a),
                          RDiv(holdings[j].current_value,
                               RAdd(holdings[j].current_value,
                                    holdings[k].current_value)))>>

(***************************************************************************)
(* C16.  Over-satisfied exit: when the function has returned, for every    *)
(* SELL ticker whose fully exited holdings are worth at least              *)
(* |adjustment_value| (remaining_sell <= 0), the actions of the ticker in  *)
(* every account are exactly the full-exit SELLs of that account's         *)
(* 0%-target holdings: no non-zero-target holding gets a SELL and the      *)
(* ticker has no BUY.                                                      *)
(***************************************************************************)
C16_OverSatisfiedExit ==
  Returned =>
    \A k \in 1..Len(adjustments) :
      LET a == adjustments[k]
          t == a.ticker
      IN (a.action = "SELL" /\ RLe(RemainingToSell(a), Zero)) =>
           \A acc \in FullAccounts :
             LET exits == PositionsIn(ExitPositions(t), acc)
             IN /\ SellValuesIn(account_actions, acc, t)
                     = [j \in 1..Len(exits) |-> holdings[exits[j]].current_value]
                /\ BuyValuesIn(account_actions, acc, t) = <<>>

C16_Witness ==
  /\ Returned
  /\ \E k \in 1..Len(adjustments) :
       LET a == adjustments[k]
       IN /\ a.action = "SELL"
          /\ RLt(RemainingToSell(a), Zero)
          /\ \E j \in KeepPositions(a.ticker) :
               /\ RGt(holdings[j].current_value, Zero)
               /\ ActionsOf(full_account(holdings[j])) = <<>>

(***************************************************************************)
(* C17.  Action label: once the first pass has run, every Adjustment is    *)
(* labelled BUY exactly when its adjustment_value is > 0 and SELL exactly  *)
(* when it is < 0, and none has adjustment_value 0; and every BUY action   *)
(* of an account is of a ticker whose Adjustment is BUY and that the       *)
(* account holds with a non-zero target weight.                            *)
(***************************************************************************)
C17_ActionLabel ==
  AfterFirstPass =>
    /\ \A k \in 1..Len(adjustments) :
         LET a == adjustments[k]
         IN /\ a.action \in {"BUY", "SELL"}
            /\ a.action = "BUY" <=> RGt(a.adjustment_value, Zero)
            /\ a.action = "SELL" <=> RLt(a.adjustment_value, Zero)
            /\ a.adjustment_value # Zero
    /\ \A acc \in DOMAIN account_actions :
         \A j \in 1..Len(account_actions[acc]) :
           LET x == account_actions[acc][j]
           IN x.action = "BUY" =>
                /\ \E k \in 1..Len(adjustments) :
                     /\ adjustments[k].ticker = x.ticker
                     /\ adjustments[k].action = "BUY"
                /\ acc \in EligibleAccounts(x.ticker)

C17_Witness ==
  /\ Returned
  /\ \E k \in 1..Len(adjustments) :
       LET a == adjustments[k]
       IN /\ a.action = "BUY"
          /\ \E i, j \in PositionsOf(a.ticker) :
               /\ holdings[i].target_weight = Zero
               /\ full_account(holdings[i]) \notin EligibleAccounts(a.ticker)
               /\ BuyValuesIn(account_actions, full_account(holdings[i]), a.ticker) = <<>>
               /\ BuyValuesIn(account_actions, full_account(holdings[j]), a.ticker) # <<>>

(***************************************************************************)
(* C18.  Non-zero actions: when the function has returned, every action of *)
(* every account has a value other than 0.                                 *)
(***************************************************************************)
C18_NonZeroActions ==
  Returned =>
    \A acc \in DOMAIN account_actions :
      \A j \in 1..Len(account_actions[acc]) :
        account_actions[acc][j].value # Zero

(***************************************************************************)
(* The JSON store of src/portfolio_data.py.  Every operation loads the     *)
(* file, changes the loaded data and saves it, so the file is the state:   *)
(* holdings is data['holdings'] (of each stored holding the fields that    *)
(* the operations below and the engine read), cash_balances is             *)
(* data['cash_balances'], cash_target_percentage is the stored cash        *)
(* target, and total_value is the total last returned by                   *)
(* get_holdings_list.  The variables of the engine's invocation keep their *)
(* initial values: no analysis is running.                                 *)
(***************************************************************************)
MaxCash == 500

Quantities == {1, 2}
LastPrices == {200}
UpdateAmounts == {0} \cup CashAmounts

HoldingData ==
  [owner : Owners, account : AccountIds, ticker : Tickers,
   quantity : {Rat(q) : q \in Quantities},
   last_price : {Rat(p) : p \in LastPrices},
   target_weight : {Rat(w) : w \in TargetWeights}]

analysis ==
  <<pc, adjustments, adjustments_by_ticker, idx,
    account_actions, available_cash_tracker, account_cash_needs>>

DataInit ==
  /\ Init
  /\ holdings = <<>>

add_holding(holding_data) ==
  /\ Len(holdings) < MaxHoldings
  /\ holdings' = Append(holdings,
                        [owner |-> holding_data.owner,
                         account |-> holding_data.account,
                         ticker |-> holding_data.ticker,
                         current_value |-> RMul(holding_data.quantity,
                                                holding_data.last_price),
                         target_weight |-> holding_data.target_weight])
  /\ UNCHANGED <<response, cash_balances, total_value, cash_target_percentage, analysis>>

IsHoldingOf(h, ticker, account, owner) ==
  h.ticker = ticker /\ h.account = account /\ h.owner = owner

CreditFirstMatch(cash, matching, account_name) ==
  IF matching = <<>> THEN cash
  ELSE [acc \in DOMAIN cash \cup {account_name} |->
          IF acc = account_name
          THEN RAdd(Get(cash, account_name), Head(matching).current_value)
          ELSE cash[acc]]

delete_holding(ticker, account, owner) ==
  LET matching == SelectSeq(holdings, LAMBDA h : IsHoldingOf(h, ticker, account, owner))
      account_name == <<OwnerName(owner), account>>
  IN /\ cash_balances' = CreditFirstMatch(cash_balances, matching, account_name)
     /\ RLe(Get(cash_balances', account_name), Rat(MaxCash))
     /\ holdings' = SelectSeq(holdings, LAMBDA h : ~IsHoldingOf(h, ticker, account, owner))
     /\ UNCHANGED <<response, total_value, cash_target_percentage, analysis>>

update_cash_balance(account_full_name, amount) ==
  /\ cash_balances' = [acc \in DOMAIN cash_balances \cup {account_full_name} |->
                         IF acc = account_full_name THEN amount ELSE cash_balances[acc]]
  /\ UNCHANGED <<response, holdings, total_value, cash_target_percentage, analysis>>

AddHolding ==
  \E holding_data \in HoldingData : add_holding(holding_data)

DeleteHolding ==
  \E ticker \in Tickers, account \in AccountIds, owner \in Owners :
    delete_holding(ticker, account, owner)

UpdateCashBalance ==
  \E account_full_name \in FullAccounts, amount \in UpdateAmounts :
    update_cash_balance(account_full_name, Rat(amount))

GetHoldingsList ==
  /\ total_value' = PortfolioTotal(holdings, cash_balances)
  /\ UNCHANGED <<response, holdings, cash_balances, cash_target_percentage, analysis>>

DataNext ==
  \/ AddHolding
  \/ DeleteHolding
  \/ UpdateCashBalance
  \/ GetHoldingsList

DataSpec ==
  DataInit /\ [][DataNext]_vars

(***************************************************************************)
(* C19.  delete_holding conserves the portfolio value: across every call   *)
(* of delete_holding, after any sequence of add_holding,                   *)
(* update_cash_balance and delete_holding calls, the total that            *)
(* get_holdings_list computes (the holdings' current values plus the cash  *)
(* balances) is the same after the call as before it.                      *)
(***************************************************************************)
C19_DeleteConservesValue ==
  [][DeleteHolding =>
       PortfolioTotal(holdings', cash_balances')
         = PortfolioTotal(holdings, cash_balances)]_vars

(***************************************************************************)
(* Invocations with three holdings, over a narrower set of holdings: the   *)
(* smallest inputs in which two BUY tickers share an account, so that the  *)
(* buy of the first ticker has changed the tracker the second is split by. *)
(***************************************************************************)
WideHoldings == 3

WideValues == {0, 200}
WideTargetWeights == {50}

WideHolding ==
  [owner : Owners, account : AccountIds, ticker : Tickers,
   current_value : {Rat(v) : v \in WideValues},
   target_weight : {Rat(w) : w \in WideTargetWeights}]

WideInit ==
  /\ holdings \in [1..WideHoldings -> WideHolding]
  /\ cash_balances \in CashBalance
  /\ total_value = PortfolioTotal(holdings, cash_balances)
  /\ cash_target_percentage \in CashTargets
  /\ pc = "first_pass"
  /\ adjustments = <<>>
  /\ adjustments_by_ticker = <<>>
  /\ idx = 1
  /\ account_actions = EmptyMap
  /\ available_cash_tracker = EmptyMap
  /\ account_cash_needs = EmptyMap
  /\ response = NoResponse

WideSpec ==
  WideInit /\ [][Next]_vars

(***************************************************************************)
(* C20.  Positive BUY values: when the function has returned, every BUY    *)
(* action of every account has a value > 0.                                *)
(***************************************************************************)
C20_PositiveBuys ==
  Returned =>
    \A acc \in DOMAIN account_actions :
      \A j \in 1..Len(account_actions[acc]) :
        account_actions[acc][j].action = "BUY" =>
          RGt(account_actions[acc][j].value, Zero)

(***************************************************************************)
(* C21.  No over-selling: when the function has returned, in every account *)
(* the SELLs of a ticker, if any, are one per fully exited holding of the  *)
(* account, followed either by nothing or by one per non-zero-target       *)
(* holding of the account, in holdings order, and each has a value from 0  *)
(* to the current value of the holding it is emitted for;                  *)
(* and the SELLs of a ticker over all accounts sum to at most the sum of   *)
(* the ticker's current values.                                            *)
(***************************************************************************)
C21_NoOverSelling ==
  Returned =>
    \A t \in HeldTickers :
      /\ \A acc \in FullAccounts :
           LET sold == SellValuesIn(account_actions, acc, t)
               exits == PositionsIn(ExitPositions(t), acc)
               kept == PositionsIn(KeepPositions(t), acc)
               sellers == IF sold = <<>> THEN <<>>
                          ELSE IF Len(sold) = Len(exits) THEN exits
                          ELSE exits \o kept
           IN /\ Len(sold) = Len(sellers)
              /\ \A k \in 1..Len(sold) :
                   /\ RLe(Zero, sold[k])
                   /\ RLe(sold[k], holdings[sellers[k]].current_value)
      /\ RLe(SellValueOver(account_actions, FullAccounts, t),
             SumOfPositions(PositionsOf(t)))

C21_Witness ==
  /\ Returned
  /\ \E k \in 1..Len(adjustments) :
       LET a == adjustments[k]
       IN /\ a.action = "SELL"
          /\ RGt(RemainingToSell(a), Zero)
          /\ ExitPositions(a.ticker) # {}
          /\ \E j \in KeepPositions(a.ticker) :
               LET sold == SellValuesIn(account_actions, full_account(holdings[j]), a.ticker)
               IN /\ sold # <<>>
                  /\ RGt(sold[Len(sold)], Zero)
                  /\ RLt(sold[Len(sold)], holdings[j].current_value)

(***************************************************************************)
(* C22.  Tracker agrees with funding needs: from the end of the buy pass   *)
(* on, the available-cash tracker of every account with at least one       *)
(* action is its input cash balance plus its SELL values minus its BUY     *)
(* values; and once the funding needs are computed, an account has one     *)
(* exactly when its tracker is negative, and the need is the negated       *)
(* tracker value.                                                          *)
(***************************************************************************)
C22_TrackerAgreesWithNeeds ==
  /\ pc \in {"cash_needs", "sort", "done"} =>
       \A acc \in FullAccounts :
         Len(ActionsOf(acc)) >= 1 =>
           Get(available_cash_tracker, acc)
             = RSub(RAdd(Get(cash_balances, acc),
                         SumOfActions(ActionsOf(acc), "SELL", "any")),
                    SumOfActions(ActionsOf(acc), "BUY", "any"))
  /\ pc \in {"sort", "done"} =>
       \A acc \in FullAccounts :
         /\ acc \in DOMAIN account_cash_needs
              <=> RLt(Get(available_cash_tracker, acc), Zero)
         /\ acc \in DOMAIN account_cash_needs =>
              account_cash_needs[acc] = RNeg(Get(available_cash_tracker, acc))

C22_Witness ==
  /\ Returned
  /\ \E acc \in DOMAIN account_cash_needs :
       /\ RGt(Get(cash_balances, acc), Zero)
       /\ RLt(Get(available_cash_tracker, acc), Zero)
  /\ \E acc \in FullAccounts :
       /\ acc \notin DOMAIN account_cash_needs
       /\ RGt(SumOfActions(ActionsOf(acc), "SELL", "any"), Zero)

(***************************************************************************)
(* Vocabulary of order independence: the holdings in another order, and    *)
(* the total of the actions of one (account, ticker, action kind) in an    *)
(* account_actions mapping.                                                *)
(***************************************************************************)
Orderings(n) ==
  {p \in [1..n -> 1..n] : \A i, j \in 1..n : (i # j) => p[i] # p[j]}

Reordered(hs, p) ==
  [k \in 1..Len(hs) |-> hs[p[k]]]

ActionTotal(actions, acc, kind, t) ==
  SumOfActions(IF acc \in DOMAIN actions THEN actions[acc] ELSE <<>>, kind, t)

SameValues(actions, other) ==
  \A acc \in FullAccounts : \A t \in Tickers : \A kind \in {"BUY", "SELL"} :
    ActionTotal(actions, acc, kind, t) = ActionTotal(other, acc, kind, t)

(***************************************************************************)
(* C23.  Order independence: when the function has returned, for every     *)
(* permutation of the holdings the function returns, on the permuted       *)
(* holdings and the same cash balances and total value, the same total     *)
(* value for every (account, ticker, action kind) and the same             *)
(* account_cash_needs.                                                     *)
(***************************************************************************)
C23_OrderIndependence ==
  Returned =>
    \A p \in Orderings(Len(holdings)) :
      LET other == analyze_rebalancing(Reordered(holdings, p), cash_balances,
                                       total_value, cash_target_percentage)
      IN /\ SameValues(account_actions, other.account_actions)
         /\ other.account_cash_needs = account_cash_needs

(***************************************************************************)
(* The two analysis endpoints of src/app.py over the JSON store.  As in    *)
(* DataSpec, holdings, cash_balances and cash_target_percentage are the    *)
(* stored file; the file of an earlier version has no cash target          *)
(* (MissingCashTarget), and get_holdings_list then stores the default.     *)
(* A request is served in one step: the handler loads the file, works on   *)
(* the loaded copy, calls analyze_rebalancing and returns; response is the *)
(* request and the JSON body returned.  With a total that is the sum of    *)
(* the holdings and the cash passed, no step of analyze_rebalancing raises *)
(* (C7), so the handlers' except branch is not taken.  The stored         *)
(* holdings are drawn from the narrower set of WideSpec.                   *)
(***************************************************************************)
DepositAmounts == {-100, 0, 100}

Deposits ==
  UNION {[S -> {Rat(d) : d \in DepositAmounts}] : S \in SUBSET FullAccounts}

MissingCashTarget ==
  <<>>

DefaultCashTarget ==
  <<38, 5>>

StoredCashTarget(ctp) ==
  IF ctp = MissingCashTarget THEN DefaultCashTarget ELSE ctp

AppInit ==
  /\ holdings \in UNION {[1..n -> WideHolding] : n \in 0..MaxHoldings}
  /\ cash_balances \in CashBalance
  /\ total_value = PortfolioTotal(holdings, cash_balances)
  /\ cash_target_percentage \in CashTargets \cup {MissingCashTarget}
  /\ pc = "first_pass"
  /\ adjustments = <<>>
  /\ adjustments_by_ticker = <<>>
  /\ idx = 1
  /\ account_actions = EmptyMap
  /\ available_cash_tracker = EmptyMap
  /\ account_cash_needs = EmptyMap
  /\ response = NoResponse

apply_deposits(cash, deposit_adjustments) ==
  LET credited == {acc \in DOMAIN deposit_adjustments :
                     RGt(deposit_adjustments[acc], Zero)}
  IN [acc \in DOMAIN cash \cup credited |->
        IF acc \in credited
        THEN RAdd(Get(cash, acc), deposit_adjustments[acc])
        ELSE cash[acc]]

PortfolioResponse(handler, request, hs, cash, tv, ctp) ==
  LET results == analyze_rebalancing(hs, cash, tv, ctp)
  IN [handler |-> handler,
      request |-> request,
      total_value |-> tv,
      cash_balances |-> cash,
      total_cash |-> SumValues(cash),
      adjustments |-> results.adjustments,
      account_actions |-> results.account_actions,
      account_cash_needs |-> results.account_cash_needs,
      holdings |-> hs,
      cash_target_percentage |-> ctp]

get_portfolio_data ==
  /\ cash_target_percentage' = StoredCashTarget(cash_target_percentage)
  /\ response' = PortfolioResponse("portfolio", EmptyMap, holdings, cash_balances,
                                   PortfolioTotal(holdings, cash_balances),
                                   StoredCashTarget(cash_target_percentage))
  /\ UNCHANGED <<holdings, cash_balances, total_value, analysis>>

get_portfolio_with_deposits_saving(deposit_adjustments) ==
  LET cash == apply_deposits(cash_balances, deposit_adjustments)
  IN /\ cash_target_percentage' = StoredCashTarget(cash_target_percentage)
     /\ response' = PortfolioResponse("portfolio-with-deposits", deposit_adjustments,
                                      holdings, cash, PortfolioTotal(holdings, cash),
                                      StoredCashTarget(cash_target_percentage))
     /\ cash_balances' = cash
     /\ UNCHANGED <<holdings, total_value, analysis>>

get_portfolio_with_deposits(deposit_adjustments) ==
  LET cash == apply_deposits(cash_balances, deposit_adjustments)
  IN /\ cash_target_percentage' = StoredCashTarget(cash_target_percentage)
     /\ response' = PortfolioResponse("portfolio-with-deposits", deposit_adjustments,
                                      holdings, cash, PortfolioTotal(holdings, cash),
                                      StoredCashTarget(cash_target_percentage))
     /\ UNCHANGED <<holdings, cash_balances, total_value, analysis>>

GetPortfolioData ==
  get_portfolio_data

GetPortfolioWithDeposits ==
  \E deposit_adjustments \in Deposits :
    get_portfolio_with_deposits(deposit_adjustments)

AppNext ==
  \/ GetPortfolioData
  \/ GetPortfolioWithDeposits

AppSpec ==
  AppInit /\ [][AppNext]_vars


(***************************************************************************)
(* Vocabulary of C24.  Credited(request, acc) is the deposit of the        *)
(* request that counts for an account: its amount when strictly positive,  *)
(* nothing otherwise.  DepositsHonoured(hs, stored, reply) reads a reply of    *)
(* the deposit endpoint against the cash balances stored when it was       *)
(* served: every account carries its stored balance plus its credited      *)
(* deposit, the total is the holdings plus the adjusted cash, and the      *)
(* analysis returned is that of the holdings with the adjusted cash and    *)
(* that total.                                                             *)
(***************************************************************************)
Credited(request, acc) ==
  IF acc \in DOMAIN request /\ RGt(request[acc], Zero) THEN request[acc] ELSE Zero

DepositsHonoured(hs, stored, reply) ==
  LET results == analyze_rebalancing(reply.holdings, reply.cash_balances,
                                     reply.total_value,
                                     reply.cash_target_percentage)
  IN /\ DOMAIN reply.cash_balances =
          DOMAIN stored \cup {acc \in FullAccounts :
                                Credited(reply.request, acc) # Zero}
     /\ \A acc \in DOMAIN reply.cash_balances :
          reply.cash_balances[acc] =
            RAdd(Get(stored, acc), Credited(reply.request, acc))
     /\ reply.holdings = hs
     /\ reply.total_value =
          RAdd(RSum(CurrentValues(hs)), SumValues(reply.cash_balances))
     /\ reply.adjustments = results.adjustments
     /\ reply.account_actions = results.account_actions
     /\ reply.account_cash_needs = results.account_cash_needs

(***************************************************************************)
(* Served(handler): the step ends with the reply of the named endpoint.    *)
(* Every request writes response, so within [][...]_vars this is a step of *)
(* that endpoint.                                                          *)
(***************************************************************************)
Served(handler) ==
  response'.handler = handler

FollowingRequestSeesStore ==
  (response.handler = "portfolio-with-deposits" /\ Served("portfolio")) =>
    /\ response'.cash_balances = cash_balances
    /\ response'.total_value = PortfolioTotal(holdings, cash_balances)

(***************************************************************************)
(* C24 as stated.  Deposit simulation is non-persistent: a request to      *)
(* get_portfolio_with_deposits adds only the strictly positive deposits to *)
(* the in-memory cash balances, analyzes with total value = sum of the     *)
(* holding values + sum of the adjusted cash balances, and leaves the      *)
(* stored portfolio data (holdings, cash balances, cash target) unchanged, *)
(* so that a following get_portfolio_data request sees the original cash   *)
(* balances and total value.  Violated by a stored file that has no cash   *)
(* target: serving the request stores the default.                         *)
(***************************************************************************)
C24_DepositsNotPersistedAsStated ==
  /\ [][Served("portfolio-with-deposits") =>
          /\ DepositsHonoured(holdings, cash_balances, response')
          /\ holdings' = holdings
          /\ cash_balances' = cash_balances
          /\ cash_target_percentage' = cash_target_percentage]_vars
  /\ [][FollowingRequestSeesStore]_vars

(***************************************************************************)
(* C24, amended.  A request to get_portfolio_with_deposits adds only the   *)
(* strictly positive deposits to the in-memory cash balances, analyzes     *)
(* with total value = sum of the holding values + sum of the adjusted cash *)
(* balances, and leaves the stored holdings and cash balances unchanged;   *)
(* the stored cash target is unchanged too when the file has one, and      *)
(* becomes the default 7.6 when it has none.  A following                  *)
(* get_portfolio_data request sees the original cash balances and total    *)
(* value.                                                                  *)
(***************************************************************************)
C24_DepositsNotPersisted ==
  /\ [][Served("portfolio-with-deposits") =>
          /\ DepositsHonoured(holdings, cash_balances, response')
          /\ holdings' = holdings
          /\ cash_balances' = cash_balances
          /\ cash_target_percentage' =
               IF cash_target_percentage = MissingCashTarget
               THEN DefaultCashTarget
               ELSE cash_target_percentage]_vars
  /\ [][FollowingRequestSeesStore]_vars

C24_Witness ==
  /\ response.handler = "portfolio-with-deposits"
  /\ \E acc \in DOMAIN response.request : RGt(response.request[acc], Zero)
  /\ \E acc \in DOMAIN response.request : ~RGt(response.request[acc], Zero)
  /\ response.cash_balances # cash_balances
  /\ RGt(response.total_value, PortfolioTotal(holdings, cash_balances))
  /\ holdings # <<>>
  /\ \E acc \in DOMAIN response.account_actions :
       response.account_actions[acc] # <<>>

=============================================================================
